---------------------------- MODULE Spec2Model ----------------------------
(***************************************************************************)
(* A model of the cleaning pipeline of AutoCleaner_App.py.                 *)
(*                                                                         *)
(* Strings are sequences of one-character strings, so that strip, lower,   *)
(* title, re.sub, re.fullmatch, float() and strptime are computed the way  *)
(* the code computes them.  A cell is a tagged record:                     *)
(*    [t |-> "nan"]                  a missing marker (NaN / None / NaT)   *)
(*    [t |-> "str", s |-> chars]     a Python str                          *)
(*    [t |-> "int", n |-> i, d |-> 1]     a Python / numpy integer         *)
(*    [t |-> "float", n |-> i, d |-> j]   a float, the exact rational i/j  *)
(* A column is [name, dtype, cells]; a table (DataFrame) is a sequence of  *)
(* columns whose cells have one common length.                             *)
(***************************************************************************)
EXTENDS Integers, Sequences, FiniteSets, TLC

VARIABLES
    pc,         \* position of the running call
    df,         \* the DataFrame being cleaned
    df_before,  \* auto_clean's snapshot (df.copy())
    report,     \* generate_cleaning_report's dict, or NoReport
    log,        \* history: the functions auto_clean has called so far
    err,        \* the exception that left the call, or "none"
    threshold,  \* handle_missing_values' threshold, the rational <<p, q>>
    platform,   \* the C library behind datetime.strftime
    raw,        \* parse_salary's argument
    res,        \* parse_salary's return value
    arg         \* history: the table the running call was given

vars == <<pc, df, df_before, report, log, err, threshold, platform, raw, res, arg>>

----------------------------------------------------------------------------
(* Characters and the str methods the code uses.                           *)

LowerLetters ==
    <<"a","b","c","d","e","f","g","h","i","j","k","l","m",
      "n","o","p","q","r","s","t","u","v","w","x","y","z">>

UpperLetters ==
    <<"A","B","C","D","E","F","G","H","I","J","K","L","M",
      "N","O","P","Q","R","S","T","U","V","W","X","Y","Z">>

Digits == <<"0","1","2","3","4","5","6","7","8","9">>

Range(f) == {f[i] : i \in DOMAIN f}

IsLower(c) == c \in Range(LowerLetters)
IsUpper(c) == c \in Range(UpperLetters)
IsDigit(c) == c \in Range(Digits)
IsAlpha(c) == IsLower(c) \/ IsUpper(c)
IsSpace(c) == c = " "

IndexOf(f, c) == CHOOSE i \in DOMAIN f : f[i] = c

\* str.lower() and str.upper() on one character
LowerChar(c) == IF IsUpper(c) THEN LowerLetters[IndexOf(UpperLetters, c)] ELSE c
UpperChar(c) == IF IsLower(c) THEN UpperLetters[IndexOf(LowerLetters, c)] ELSE c

\* ord(c), restricted to the alphabet: Punct below digits, digits below
\* upper case, upper case below "_" and lower case, as in ASCII.
Ord(c) ==
    IF IsDigit(c) THEN 48 + IndexOf(Digits, c) - 1
    ELSE IF IsUpper(c) THEN 65 + IndexOf(UpperLetters, c) - 1
    ELSE IF IsLower(c) THEN 97 + IndexOf(LowerLetters, c) - 1
    ELSE IF c = " " THEN 32 ELSE IF c = "#" THEN 35 ELSE IF c = "$" THEN 36
    ELSE IF c = "," THEN 44 ELSE IF c = "-" THEN 45 ELSE IF c = "." THEN 46
    ELSE IF c = "/" THEN 47 ELSE 95

DigitVal(c) == IndexOf(Digits, c) - 1

Lower(s) == [i \in DOMAIN s |-> LowerChar(s[i])]

\* str.replace(c, '')
Remove(s, c) == LET K(x) == x # c IN SelectSeq(s, K)

RECURSIVE LStrip(_)
LStrip(s) == IF s # <<>> /\ IsSpace(Head(s)) THEN LStrip(Tail(s)) ELSE s

RECURSIVE RStrip(_)
RStrip(s) ==
    IF s # <<>> /\ IsSpace(s[Len(s)]) THEN RStrip(SubSeq(s, 1, Len(s) - 1)) ELSE s

\* str.strip()
Strip(s) == RStrip(LStrip(s))

\* sub in s  (substring containment)
Contains(s, sub) ==
    \E i \in 0..(Len(s) - Len(sub)) : SubSeq(s, i + 1, i + Len(sub)) = sub

\* str.replace(" ", "_")
ReplaceChar(s, a, b) == [i \in DOMAIN s |-> IF s[i] = a THEN b ELSE s[i]]

\* str.title(): the first letter of every run of letters in upper case, the
\* other letters in lower case
Title(s) ==
    [i \in DOMAIN s |->
        IF ~IsAlpha(s[i]) THEN s[i]
        ELSE IF i = 1 \/ ~IsAlpha(s[i - 1]) THEN UpperChar(s[i])
        ELSE LowerChar(s[i])]

\* str.capitalize(): first character in upper case, the rest in lower case
Capitalize(w) ==
    [i \in DOMAIN w |-> IF i = 1 THEN UpperChar(w[i]) ELSE LowerChar(w[i])]

\* str.split(): the maximal runs of non-whitespace characters
RECURSIVE Split(_)
Split(s) ==
    LET t == LStrip(s)
        n == IF \E i \in DOMAIN t : IsSpace(t[i])
             THEN (CHOOSE i \in DOMAIN t :
                      IsSpace(t[i]) /\ \A j \in 1..(i - 1) : ~IsSpace(t[j])) - 1
             ELSE Len(t)
    IN  IF t = <<>> THEN <<>>
        ELSE <<SubSeq(t, 1, n)>> \o Split(SubSeq(t, n + 1, Len(t)))

\* ' '.join(words)
RECURSIVE Join(_)
Join(ws) ==
    IF ws = <<>> THEN <<>>
    ELSE IF Len(ws) = 1 THEN ws[1]
    ELSE ws[1] \o <<" ">> \o Join(Tail(ws))

\* s < t for Python strings: lexicographic by code point
RECURSIVE StrLess(_, _)
StrLess(s, t) ==
    IF t = <<>> THEN FALSE
    ELSE IF s = <<>> THEN TRUE
    ELSE IF Head(s) # Head(t) THEN Ord(Head(s)) < Ord(Head(t))
    ELSE StrLess(Tail(s), Tail(t))

----------------------------------------------------------------------------
(* Numbers.  A float is the exact rational n/d in lowest terms, d > 0.     *)

Abs(x) == IF x < 0 THEN -x ELSE x

RECURSIVE Gcd(_, _)
Gcd(a, b) == IF b = 0 THEN a ELSE Gcd(b, a % b)

NaN == [t |-> "nan"]
StrCell(s) == [t |-> "str", s |-> s]
IntCell(i) == [t |-> "int", n |-> i, d |-> 1]
FloatCell(i, j) ==
    LET g == Gcd(Abs(i), j) IN [t |-> "float", n |-> i \div g, d |-> j \div g]

IsNull(c) == c.t = "nan"
ToFloat(c) == IF c.t = "int" THEN FloatCell(c.n, 1) ELSE c

\* a < b for two numeric cells
NumLess(a, b) == a.n * b.d < b.n * a.d

RECURSIVE Pow10(_)
Pow10(k) == IF k = 0 THEN 1 ELSE 10 * Pow10(k - 1)

\* The decimal digits of the natural number i
RECURSIVE NatStr(_)
NatStr(i) ==
    IF i < 10 THEN <<Digits[i + 1]>> ELSE NatStr(i \div 10) \o <<Digits[(i % 10) + 1]>>

\* The value of a non-empty string of digits
RECURSIVE NatVal(_)
NatVal(s) ==
    IF s = <<>> THEN 0 ELSE 10 * NatVal(SubSeq(s, 1, Len(s) - 1)) + DigitVal(s[Len(s)])


\* str(x) of a float x = n/d with at most three decimals: repr gives the
\* integer part, a point and the decimals without trailing zeros ("1200.0")
FloatStr(c) ==
    LET m == (Abs(c.n) * 1000) \div c.d
        ip == m \div 1000
        fp == m % 1000
        frac == IF fp = 0 THEN <<"0">>
                ELSE IF fp % 100 = 0 THEN NatStr(fp \div 100)
                ELSE IF fp % 10 = 0 THEN
                    (IF fp < 100 THEN <<"0">> ELSE <<>>) \o NatStr(fp \div 10)
                ELSE (IF fp < 10 THEN <<"0", "0">>
                      ELSE IF fp < 100 THEN <<"0">> ELSE <<>>) \o NatStr(fp)
    IN  (IF c.n < 0 THEN <<"-">> ELSE <<>>) \o NatStr(ip) \o <<".">> \o frac

\* str(val) for a cell
PyStr(c) ==
    IF c.t = "str" THEN c.s
    ELSE IF c.t = "nan" THEN <<"n", "a", "n">>
    ELSE IF c.t = "int" THEN (IF c.n < 0 THEN <<"-">> ELSE <<>>) \o NatStr(Abs(c.n))
    ELSE FloatStr(c)

\* What a raising call yields, before the surrounding except turns it into None
ValueError == [t |-> "raise"]

\* float(s) for s over the model's alphabet: surrounding whitespace is
\* ignored, one leading "-" is a sign, "_" may stand between two digits, and
\* what remains must be digits with at most one "." and at least one digit.
PyFloat(s0) ==
    LET s1 == Strip(s0)
        neg == s1 # <<>> /\ Head(s1) = "-"
        s2 == IF neg THEN Tail(s1) ELSE s1
        underOk == \A i \in DOMAIN s2 :
                      s2[i] = "_" =>
                          /\ i > 1 /\ i < Len(s2)
                          /\ IsDigit(s2[i - 1]) /\ IsDigit(s2[i + 1])
        s3 == Remove(s2, "_")
        dots == {i \in DOMAIN s3 : s3[i] = "."}
        wellFormed ==
            /\ underOk
            /\ \A i \in DOMAIN s3 : IsDigit(s3[i]) \/ s3[i] = "."
            /\ Cardinality(dots) <= 1
            /\ \E i \in DOMAIN s3 : IsDigit(s3[i])
        p == IF dots = {} THEN Len(s3) + 1 ELSE CHOOSE i \in dots : TRUE
        ipart == SubSeq(s3, 1, p - 1)
        fpart == SubSeq(s3, p + 1, Len(s3))
        num == NatVal(ipart) * Pow10(Len(fpart)) + NatVal(fpart)
    IN  IF ~wellFormed THEN ValueError
        ELSE FloatCell(IF neg THEN -num ELSE num, Pow10(Len(fpart)))

----------------------------------------------------------------------------
(* roman_to_int and parse_salary                                           *)

RomanLetters == {"i", "v", "x", "l", "c", "d", "m"}

\* roman_map.get(char, 0)
roman_map(c) ==
    IF c = "i" THEN 1 ELSE IF c = "v" THEN 5 ELSE IF c = "x" THEN 10
    ELSE IF c = "l" THEN 50 ELSE IF c = "c" THEN 100 ELSE IF c = "d" THEN 500
    ELSE IF c = "m" THEN 1000 ELSE 0

\* The loop of roman_to_int over reversed(s): i is the position still to be
\* read, total and prev are the loop's variables.
RECURSIVE RomanLoop(_, _, _, _)
RomanLoop(s, i, total, prev) ==
    IF i = 0 THEN total
    ELSE LET v == roman_map(s[i])
         IN  IF v < prev THEN RomanLoop(s, i - 1, total - v, v)
             ELSE RomanLoop(s, i - 1, total + v, v)

\* roman_to_int without the subtractive rule: every symbol is added
RECURSIVE RomanAdd(_, _)
RomanAdd(s, i) == IF i = 0 THEN 0 ELSE roman_map(s[i]) + RomanAdd(s, i - 1)

roman_to_int_additive(s) == RomanAdd(Lower(s), Len(s))

roman_to_int(s) == RomanLoop(Lower(s), Len(s), 0, 0)

\* re.fullmatch(r'[ivxlcdm]+', val)
IsRoman(val) == val # <<>> /\ \A i \in DOMAIN val : val[i] \in RomanLetters

\* re.sub(r'[^\d.]', '', val)
KeepDigitsAndDots(val) == LET K(x) == IsDigit(x) \/ x = "." IN SelectSeq(val, K)

\* except: return None
OrNone(x) == IF x = ValueError THEN NaN ELSE x

Times1000(x) == IF x = ValueError THEN x ELSE FloatCell(x.n * 1000, x.d)

parse_salary(v) ==
    LET val == Strip(Remove(Remove(Lower(PyStr(v)), "$"), ","))
    IN  IF IsRoman(val) THEN IntCell(roman_to_int(val))
        ELSE IF Contains(val, <<"k">>) THEN OrNone(Times1000(PyFloat(Remove(val, "k"))))
        ELSE OrNone(PyFloat(KeepDigitsAndDots(val)))

----------------------------------------------------------------------------
(* Tables.  A function of the pipeline yields [raise, df]: the exception   *)
(* that leaves it ("none" when it returns) and the table it returns or,    *)
(* when it raises, the table as its in-place updates left it.              *)

Column(name, dtype, cells) == [name |-> name, dtype |-> dtype, cells |-> cells]

\* df.shape
NRows(T) == IF T = <<>> THEN 0 ELSE Len(T[1].cells)
NCols(T) == Len(T)

Ok(T) == [raise |-> "none", df |-> T]
Raise(e, T) == [raise |-> e, df |-> T]

\* df[col] is a Series only when the label col occurs once in df.columns;
\* otherwise it is a DataFrame of every column with that label.
DupLabel(T, i) == \E j \in DOMAIN T : j # i /\ T[j].name = T[i].name

\* The literals the code searches column names for
s_name == <<"n", "a", "m", "e">>
s_remarks == <<"r", "e", "m", "a", "r", "k", "s">>
s_salary == <<"s", "a", "l", "a", "r", "y">>
s_age == <<"a", "g", "e">>

\* clean_column_names: col.strip().title().replace(" ", "_")
clean_name(col) == ReplaceChar(Title(Strip(col)), " ", "_")

clean_column_names(T) == [i \in DOMAIN T |-> [T[i] EXCEPT !.name = clean_name(@)]]

\* The row of T at position r
Row(T, r) == [i \in DOMAIN T |-> T[i].cells[r]]

\* drop_duplicates(keep='last'): the last row of each group survives
remove_duplicates_keep_last(T) ==
    LET Last(r) == \A q \in (r + 1)..NRows(T) : Row(T, q) # Row(T, r)
        keep == SelectSeq([r \in 1..NRows(T) |-> r], Last)
    IN  [i \in DOMAIN T |->
            [T[i] EXCEPT !.cells = [k \in DOMAIN keep |-> T[i].cells[keep[k]]]]]

\* df.drop_duplicates(keep='first'): a row is dropped when an earlier row
\* equals it in every column (missing markers compare equal)
remove_duplicates(T) ==
    LET First(r) == \A q \in 1..(r - 1) : Row(T, q) # Row(T, r)
        keep == SelectSeq([r \in 1..NRows(T) |-> r], First)
    IN  [i \in DOMAIN T |->
            [T[i] EXCEPT !.cells = [k \in DOMAIN keep |-> T[i].cells[keep[k]]]]]

\* re.sub(r'[^a-z0-9\s.,/-]', '', x)
KeepTextChars(x) ==
    LET K(c) == IsLower(c) \/ IsDigit(c) \/ IsSpace(c) \/ c \in {".", ",", "/", "-"}
    IN  SelectSeq(x, K)

\* ' '.join([word.capitalize() for word in x.split()])
CapitalizeWords(x) ==
    LET ws == Split(x) IN Join([i \in DOMAIN ws |-> Capitalize(ws[i])])

\* The body of clean_text_columns' loop for one cell of column col
clean_text_cell(col, c) ==
    LET x0 == KeepTextChars(Lower(Strip(PyStr(c))))
        x1 == IF Contains(Lower(col), s_name) THEN CapitalizeWords(x0) ELSE x0
        x2 == IF Contains(Lower(col), s_remarks) THEN Remove(x1, "#") ELSE x1
    IN  StrCell(x2)

clean_text_columns(T) ==
    IF \E i \in DOMAIN T : T[i].dtype = "object" /\ DupLabel(T, i)
    THEN Raise("AttributeError", T)
    ELSE Ok([i \in DOMAIN T |->
            IF T[i].dtype = "object"
            THEN [T[i] EXCEPT !.cells =
                     [r \in DOMAIN @ |-> clean_text_cell(T[i].name, @[r])]]
            ELSE T[i]])

\* The dtype pandas infers for a column of numbers and missing markers, and
\* the cells as that dtype stores them
InferNumeric(col, cells) ==
    IF cells = <<>> THEN [col EXCEPT !.cells = cells]
    ELSE IF \A r \in DOMAIN cells : IsNull(cells[r])
    THEN Column(col.name, "object", cells)
    ELSE IF \A r \in DOMAIN cells : cells[r].t = "int"
    THEN Column(col.name, "int64", cells)
    ELSE Column(col.name, "float64",
                [r \in DOMAIN cells |->
                    IF IsNull(cells[r]) THEN NaN ELSE ToFloat(cells[r])])

normalize_salary_column(T) ==
    [i \in DOMAIN T |->
        IF Contains(Lower(T[i].name), s_salary)
        THEN InferNumeric(T[i], [r \in DOMAIN T[i].cells |-> parse_salary(T[i].cells[r])])
        ELSE T[i]]

\* normalize_age_column's text_to_num
s_thirty == <<"t", "h", "i", "r", "t", "y">>
s_twenty_two == <<"t", "w", "e", "n", "t", "y", " ", "t", "w", "o">>
s_twenty == <<"t", "w", "e", "n", "t", "y">>
s_forty == <<"f", "o", "r", "t", "y">>
s_none == <<"n", "o", "n", "e">>

\* Series.replace(text_to_num) on one cell: a cell equal to a key becomes
\* the key's value, any other cell stays
text_to_num(c) ==
    IF c.t # "str" THEN c
    ELSE IF c.s = s_thirty THEN StrCell(<<"3", "0">>)
    ELSE IF c.s = s_twenty_two THEN StrCell(<<"2", "2">>)
    ELSE IF c.s = s_twenty THEN StrCell(<<"2", "0">>)
    ELSE IF c.s = s_forty THEN StrCell(<<"4", "0">>)
    ELSE IF c.s = s_none THEN NaN
    ELSE c

\* pd.to_numeric(..., errors='coerce') on one cell, for strings over the
\* model's alphabet: digits with an optional sign give an integer, a decimal
\* numeral gives a float, anything else the missing marker
to_numeric_cell(c) ==
    IF c.t # "str" THEN c
    ELSE LET s == Strip(c.s)
             body == IF s # <<>> /\ Head(s) = "-" THEN Tail(s) ELSE s
             f == PyFloat(s)
         IN  IF Contains(s, <<"_">>) \/ f = ValueError THEN NaN
             ELSE IF \A i \in DOMAIN body : IsDigit(body[i]) THEN IntCell(f.n)
             ELSE f

\* The Series pd.to_numeric returns: int64 when every value is an integer,
\* float64 otherwise; a numeric column is returned as it is.
to_numeric(col) ==
    IF col.dtype # "object" THEN col
    ELSE LET cells == [r \in DOMAIN col.cells |-> to_numeric_cell(col.cells[r])]
         IN  IF \A r \in DOMAIN cells : cells[r].t = "int"
             THEN Column(col.name, "int64", cells)
             ELSE Column(col.name, "float64",
                         [r \in DOMAIN cells |->
                             IF IsNull(cells[r]) THEN NaN ELSE ToFloat(cells[r])])

normalize_age_column(T) ==
    [i \in DOMAIN T |->
        IF Contains(Lower(T[i].name), s_age)
        THEN to_numeric([T[i] EXCEPT !.cells = [r \in DOMAIN @ |-> text_to_num(@[r])]])
        ELSE T[i]]

----------------------------------------------------------------------------
(* datetime.strptime, strftime and parse_date_columns                      *)

\* known_formats with month-first slashes tried before day-first ones
known_formats_month_first ==
    << <<"%d", "-", "%m", "-", "%Y">>,
       <<"%m", "/", "%d", "/", "%Y">>,
       <<"%Y", "-", "%m", "-", "%d">>,
       <<"%d", "/", "%m", "/", "%Y">>,
       <<"%Y", "/", "%m", "/", "%d">>,
       <<"%d", "-", "%b", "-", "%Y">>,
       <<"%d", " ", "%B", " ", "%Y">>,
       <<"%B", " ", "%d", ",", " ", "%Y">>,
       <<"%b", " ", "%d", ",", " ", "%Y">> >>

\* A format is a sequence of directives ("%d", "%m", "%Y", "%b", "%B") and
\* literal characters.
known_formats ==
    << <<"%d", "-", "%m", "-", "%Y">>,
       <<"%d", "/", "%m", "/", "%Y">>,
       <<"%Y", "-", "%m", "-", "%d">>,
       <<"%m", "/", "%d", "/", "%Y">>,
       <<"%Y", "/", "%m", "/", "%d">>,
       <<"%d", "-", "%b", "-", "%Y">>,
       <<"%d", " ", "%B", " ", "%Y">>,
       <<"%B", " ", "%d", ",", " ", "%Y">>,
       <<"%b", " ", "%d", ",", " ", "%Y">> >>

\* calendar.month_abbr and calendar.month_name, in lower case (strptime
\* matches without regard to case)
MonthAbbr ==
    << <<"j","a","n">>, <<"f","e","b">>, <<"m","a","r">>, <<"a","p","r">>,
       <<"m","a","y">>, <<"j","u","n">>, <<"j","u","l">>, <<"a","u","g">>,
       <<"s","e","p">>, <<"o","c","t">>, <<"n","o","v">>, <<"d","e","c">> >>

MonthName ==
    << <<"j","a","n","u","a","r","y">>, <<"f","e","b","r","u","a","r","y">>,
       <<"m","a","r","c","h">>, <<"a","p","r","i","l">>, <<"m","a","y">>,
       <<"j","u","n","e">>, <<"j","u","l","y">>, <<"a","u","g","u","s","t">>,
       <<"s","e","p","t","e","m","b","e","r">>, <<"o","c","t","o","b","e","r">>,
       <<"n","o","v","e","m","b","e","r">>, <<"d","e","c","e","m","b","e","r">> >>

AllDigits(s) == \A i \in DOMAIN s : IsDigit(s[i])

\* The prefixes of s a directive's regular expression matches, as pairs
\* <<length, value>>.
\*   %d  3[0-1]|[1-2]\d|0[1-9]|[1-9]| [1-9]      %m  1[0-2]|0[1-9]|[1-9]
\*   %Y  \d\d\d\d                                %b, %B  a month's name
NumPrefixes(s, max) ==
    (IF Len(s) >= 2 /\ AllDigits(SubSeq(s, 1, 2)) /\ NatVal(SubSeq(s, 1, 2)) \in 1..max
     THEN {<<2, NatVal(SubSeq(s, 1, 2))>>} ELSE {})
    \cup (IF Len(s) >= 1 /\ IsDigit(s[1]) /\ s[1] # "0"
          THEN {<<1, DigitVal(s[1])>>} ELSE {})

DayPrefixes(s) ==
    NumPrefixes(s, 31)
    \cup (IF Len(s) >= 2 /\ s[1] = " " /\ IsDigit(s[2]) /\ s[2] # "0"
          THEN {<<2, DigitVal(s[2])>>} ELSE {})

YearPrefixes(s) ==
    IF Len(s) >= 4 /\ AllDigits(SubSeq(s, 1, 4))
    THEN {<<4, NatVal(SubSeq(s, 1, 4))>>} ELSE {}

NamePrefixes(s, names) ==
    {<<Len(names[m]), m>> : m \in
        {k \in DOMAIN names :
            Len(s) >= Len(names[k]) /\ Lower(SubSeq(s, 1, Len(names[k]))) = names[k]}}

\* whitespace in a format matches \s+
SpacePrefixes(s) ==
    {<<k, 0>> : k \in {j \in 1..Len(s) : \A i \in 1..j : IsSpace(s[i])}}

LiteralPrefixes(s, c) == IF Len(s) >= 1 /\ s[1] = c THEN {<<1, 0>>} ELSE {}

\* Every way the format's regular expression matches the whole of s, as the
\* fields [d, m, y] it extracts.
RECURSIVE StrpMatch(_, _, _)
StrpMatch(fmt, s, acc) ==
    IF fmt = <<>> THEN (IF s = <<>> THEN {acc} ELSE {})
    ELSE LET tok == Head(fmt)
             pre == IF tok = "%d" THEN DayPrefixes(s)
                    ELSE IF tok = "%m" THEN NumPrefixes(s, 12)
                    ELSE IF tok = "%Y" THEN YearPrefixes(s)
                    ELSE IF tok = "%b" THEN NamePrefixes(s, MonthAbbr)
                    ELSE IF tok = "%B" THEN NamePrefixes(s, MonthName)
                    ELSE IF tok = " " THEN SpacePrefixes(s)
                    ELSE LiteralPrefixes(s, tok)
             Put(v) == IF tok = "%d" THEN [acc EXCEPT !.d = v]
                       ELSE IF tok \in {"%m", "%b", "%B"} THEN [acc EXCEPT !.m = v]
                       ELSE IF tok = "%Y" THEN [acc EXCEPT !.y = v]
                       ELSE acc
         IN  UNION {StrpMatch(Tail(fmt), SubSeq(s, p[1] + 1, Len(s)), Put(p[2])) :
                       p \in pre}

IsLeap(y) == (y % 4 = 0 /\ y % 100 # 0) \/ y % 400 = 0

DaysIn(y, m) ==
    IF m = 2 THEN (IF IsLeap(y) THEN 29 ELSE 28)
    ELSE IF m \in {4, 6, 9, 11} THEN 30 ELSE 31

NaT == NaN
DateTime(y, m, d) == [t |-> "date", y |-> y, m |-> m, d |-> d]

\* datetime.strptime(s, fmt): ValueError when the format does not match or
\* the fields are no date (year 0, day past the month's end)
strptime(s, fmt) ==
    LET ms == StrpMatch(fmt, s, [d |-> 1, m |-> 1, y |-> 1900])
        f == CHOOSE x \in ms : \A z \in ms : z.d <= x.d
    IN  IF ms = {} THEN ValueError
        ELSE IF f.y < 1 \/ f.d > DaysIn(f.y, f.m) THEN ValueError
        ELSE DateTime(f.y, f.m, f.d)

Pad(s, n) == IF Len(s) >= n THEN s ELSE [i \in 1..(n - Len(s)) |-> "0"] \o s

\* parsed.strftime('%Y-%m-%d').  The C library formats %Y: glibc writes a
\* year below 1000 without leading zeros, the others pad it to four digits.
strftime(lib, dt) ==
    (IF lib = "glibc" THEN NatStr(dt.y) ELSE Pad(NatStr(dt.y), 4))
    \o <<"-">> \o Pad(NatStr(dt.m), 2) \o <<"-">> \o Pad(NatStr(dt.d), 2)

\* pd.to_datetime(val, errors='coerce') for the cells of the model that no
\* known format parses: pandas reads a compact YYYYMMDD numeral as a date
\* and yields NaT for the other strings of the model and for a missing cell.
to_datetime(val) ==
    IF val.t = "str" /\ Len(val.s) = 8 /\ AllDigits(val.s)
       /\ NatVal(SubSeq(val.s, 1, 4)) \in 1678..2261
       /\ NatVal(SubSeq(val.s, 5, 6)) \in 1..12
       /\ NatVal(SubSeq(val.s, 7, 8)) \in
             1..DaysIn(NatVal(SubSeq(val.s, 1, 4)), NatVal(SubSeq(val.s, 5, 6)))
    THEN DateTime(NatVal(SubSeq(val.s, 1, 4)), NatVal(SubSeq(val.s, 5, 6)),
                  NatVal(SubSeq(val.s, 7, 8)))
    ELSE NaT

\* The loop over known_formats from format i on: the first format that
\* parses s, or None
RECURSIVE FirstFormat(_, _)
FirstFormat(s, i) ==
    IF i > Len(known_formats) THEN NaT
    ELSE LET r == strptime(s, known_formats[i])
         IN  IF r.t = "raise" THEN FirstFormat(s, i + 1) ELSE r

\* The body of parse_date_columns' loop for one cell
parse_date_cell(lib, val) ==
    LET p0 == FirstFormat(Strip(PyStr(val)), 1)
        parsed == IF p0.t = "nan" THEN to_datetime(val) ELSE p0
    IN  IF parsed.t = "nan" THEN NaN ELSE StrCell(strftime(lib, parsed))

\* The loop over df.columns from column i on.  df[col].dtype raises
\* AttributeError when the label is duplicated (df[col] is a DataFrame).
RECURSIVE DateLoop(_, _, _)
DateLoop(lib, T, i) ==
    IF i > Len(T) THEN Ok(T)
    ELSE IF DupLabel(T, i) THEN Raise("AttributeError", T)
    ELSE IF T[i].dtype # "object" THEN DateLoop(lib, T, i + 1)
    ELSE LET cleaned_col ==
                 [r \in DOMAIN T[i].cells |-> parse_date_cell(lib, T[i].cells[r])]
         IN  IF \E r \in DOMAIN cleaned_col : ~IsNull(cleaned_col[r])
             THEN DateLoop(lib, [T EXCEPT ![i].cells = cleaned_col], i + 1)
             ELSE DateLoop(lib, T, i + 1)

parse_date_columns(lib, T) == DateLoop(lib, T, 1)

----------------------------------------------------------------------------
(* handle_missing_values and generate_cleaning_report                      *)

NonNull(cells) == LET K(c) == ~IsNull(c) IN SelectSeq(cells, K)

Count(cells, v) == Cardinality({r \in DOMAIN cells : cells[r] = v})

\* The most frequent value that occurs first in the column
mode_first_occurrence(cells) ==
    LET vals == Range(NonNull(cells))
        modes == {v \in vals : \A w \in vals : Count(cells, w) <= Count(cells, v)}
    IN  IF vals = {} THEN [t |-> "raise"]
        ELSE cells[CHOOSE r \in DOMAIN cells :
                      cells[r] \in modes /\ \A q \in 1..(r - 1) : cells[q] \notin modes]

\* df[col].mode().iloc[0]: Series.mode() returns the most frequent non-null
\* values in sorted order, so its first element is the smallest of them.
\* IndexError when the column has no non-null value.
mode_iloc0(cells) ==
    LET vals == Range(NonNull(cells))
        modes == {v \in vals : \A w \in vals : Count(cells, w) <= Count(cells, v)}
    IN  IF vals = {} THEN [t |-> "raise"]
        ELSE CHOOSE v \in modes : \A w \in modes : w = v \/ StrLess(v.s, w.s)

\* The values of a numeric sequence in increasing order
RECURSIVE Sorted(_)
Sorted(xs) ==
    IF xs = <<>> THEN <<>>
    ELSE LET k == CHOOSE i \in DOMAIN xs : \A j \in DOMAIN xs : ~NumLess(xs[j], xs[i])
         IN  <<xs[k]>> \o Sorted(SubSeq(xs, 1, k - 1) \o SubSeq(xs, k + 1, Len(xs)))

\* df[col].median(): the middle non-null value, or the mean of the two
\* middle ones; NaN when there is none
median(cells) ==
    LET xs == Sorted(NonNull(cells))
        n == Len(xs)
        lo == xs[n \div 2]
        hi == xs[(n \div 2) + 1]
    IN  IF n = 0 THEN NaN
        ELSE IF n % 2 = 1 THEN ToFloat(hi)
        ELSE FloatCell(lo.n * hi.d + hi.n * lo.d, 2 * lo.d * hi.d)

\* Series.fillna(v, inplace=True)
fillna(cells, v) == [r \in DOMAIN cells |-> IF IsNull(cells[r]) THEN v ELSE cells[r]]

\* df[col].isnull().mean() < threshold
AtOrUnder_strict(cells, thr) ==
    /\ Len(cells) > 0
    /\ Len(SelectSeq(cells, IsNull)) * thr[2] < thr[1] * Len(cells)

\* df[col].isnull().mean() <= threshold, the threshold being thr[1]/thr[2];
\* the mean of an empty column is NaN, which compares False
AtOrUnder(cells, thr) ==
    /\ Len(cells) > 0
    /\ Len(SelectSeq(cells, IsNull)) * thr[2] <= thr[1] * Len(cells)

\* The loop over df.columns from column i on.  With a duplicated label the
\* comparison yields a Series and the if raises ValueError; mode().iloc[0]
\* raises IndexError on a column without values.
RECURSIVE MissingLoop(_, _, _)
MissingLoop(T, thr, i) ==
    IF i > Len(T) THEN Ok(T)
    ELSE IF DupLabel(T, i) THEN Raise("ValueError", T)
    ELSE IF ~AtOrUnder(T[i].cells, thr) THEN MissingLoop(T, thr, i + 1)
    ELSE IF T[i].dtype = "object"
    THEN LET v == mode_iloc0(T[i].cells)
         IN  IF v.t = "raise" THEN Raise("IndexError", T)
             ELSE MissingLoop([T EXCEPT ![i].cells = fillna(@, v)], thr, i + 1)
    ELSE MissingLoop([T EXCEPT ![i].cells = fillna(@, median(@))], thr, i + 1)

handle_missing_values(T, thr) == MissingLoop(T, thr, 1)

\* def handle_missing_values(df, threshold=0.4)
DefaultThreshold == <<2, 5>>

NoReport == [set |-> FALSE]

generate_cleaning_report(before, after) ==
    [set |-> TRUE,
     RowsBefore |-> NRows(before), RowsAfter |-> NRows(after),
     ColumnsBefore |-> NCols(before), ColumnsAfter |-> NCols(after)]

----------------------------------------------------------------------------
(* auto_clean                                                              *)

\* auto_clean with the duplicates removed only after the text is cleaned
auto_clean_body_dedup_late ==
    <<"copy", "clean_column_names", "clean_text_columns", "remove_duplicates",
      "normalize_salary_column", "normalize_age_column", "parse_date_columns",
      "handle_missing_values", "generate_cleaning_report">>

\* The calls of auto_clean's body, in the order of its statements
auto_clean_body ==
    <<"copy", "clean_column_names", "remove_duplicates", "clean_text_columns",
      "normalize_salary_column", "normalize_age_column", "parse_date_columns",
      "handle_missing_values", "generate_cleaning_report">>

\* The statement at which the running call stands
At(f) == err = "none" /\ pc \in DOMAIN auto_clean_body /\ auto_clean_body[pc] = f

\* The statement returned: go to the next one
Return(f, T) ==
    /\ df' = T
    /\ pc' = pc + 1
    /\ log' = Append(log, f)
    /\ err' = "none"

\* The statement ended with the result r of a function that may raise
Outcome(f, r) ==
    /\ df' = r.df
    /\ log' = Append(log, f)
    /\ err' = r.raise
    /\ pc' = IF r.raise = "none" THEN pc + 1 ELSE pc

Snapshot ==
    /\ At("copy")
    /\ df_before' = df
    /\ Return("copy", df)
    /\ UNCHANGED <<report, threshold, platform, raw, res, arg>>

CleanColumnNames ==
    /\ At("clean_column_names")
    /\ Return("clean_column_names", clean_column_names(df))
    /\ UNCHANGED <<df_before, report, threshold, platform, raw, res, arg>>

RemoveDuplicates ==
    /\ At("remove_duplicates")
    /\ Return("remove_duplicates", remove_duplicates(df))
    /\ UNCHANGED <<df_before, report, threshold, platform, raw, res, arg>>

CleanTextColumns ==
    /\ At("clean_text_columns")
    /\ Outcome("clean_text_columns", clean_text_columns(df))
    /\ UNCHANGED <<df_before, report, threshold, platform, raw, res, arg>>

NormalizeSalaryColumn ==
    /\ At("normalize_salary_column")
    /\ Return("normalize_salary_column", normalize_salary_column(df))
    /\ UNCHANGED <<df_before, report, threshold, platform, raw, res, arg>>

NormalizeAgeColumn ==
    /\ At("normalize_age_column")
    /\ Return("normalize_age_column", normalize_age_column(df))
    /\ UNCHANGED <<df_before, report, threshold, platform, raw, res, arg>>

ParseDateColumns ==
    /\ At("parse_date_columns")
    /\ Outcome("parse_date_columns", parse_date_columns(platform, df))
    /\ UNCHANGED <<df_before, report, threshold, platform, raw, res, arg>>

HandleMissingValues ==
    /\ At("handle_missing_values")
    /\ Outcome("handle_missing_values", handle_missing_values(df, threshold))
    /\ UNCHANGED <<df_before, report, threshold, platform, raw, res, arg>>

GenerateCleaningReport ==
    /\ At("generate_cleaning_report")
    /\ report' = generate_cleaning_report(df_before, df)
    /\ Return("generate_cleaning_report", df)
    /\ UNCHANGED <<df_before, threshold, platform, raw, res, arg>>

\* auto_clean has returned (df, report)
Returned == err = "none" /\ pc = Len(auto_clean_body) + 1

----------------------------------------------------------------------------
(* The tables auto_clean is run on                                         *)

MaxRows == 3
MaxCols == 2

Platforms == {"glibc", "padded"}

\* Cells of the uploaded files
c_john_raw == StrCell(<<" ", " ", "J", "O", "H", "N", " ", "#", "s", "m", "i", "t", "h">>)
c_john == StrCell(<<"j", "o", "h", "n", " ", "s", "m", "i", "t", "h">>)
c_Asha == StrCell(<<"A", "s", "h", "a">>)
c_asha == StrCell(<<"a", "s", "h", "a">>)
c_Ravi == StrCell(<<"R", "a", "v", "i">>)
c_50000 == StrCell(<<"$", "5", "0", ",", "0", "0", "0">>)
c_xl == StrCell(<<"x", "l">>)
c_60k == StrCell(<<"6", "0", "k">>)
c_abc == StrCell(<<"a", "b", "c">>)
c_thirty == StrCell(<<"t", "h", "i", "r", "t", "y">>)
c_22 == StrCell(<<"2", "2">>)
c_unknown == StrCell(<<"u", "n", "k", "n", "o", "w", "n">>)
c_01_02_2023 == StrCell(<<"0", "1", "-", "0", "2", "-", "2", "0", "2", "3">>)
c_2023_03_04 == StrCell(<<"2", "0", "2", "3", "/", "0", "3", "/", "0", "4">>)
c_12_25_2023 == StrCell(<<"1", "2", "/", "2", "5", "/", "2", "0", "2", "3">>)
c_Pune == StrCell(<<"P", "u", "n", "e">>)
c_pune == StrCell(<<"p", "u", "n", "e">>)
c_Delhi == StrCell(<<"D", "e", "l", "h", "i">>)

\* The columns of the uploaded files: a header, a dtype as read_csv infers
\* it, and the column's cell in each of the file's possible rows
SourceColumns ==
    << Column(<<"F", "u", "l", "l", " ", "N", "a", "m", "e", " ">>, "object",
              <<c_john_raw, c_john, NaN, c_john_raw>>),
       Column(<<"f", "u", "l", "l", " ", "n", "a", "m", "e">>, "object",
              <<c_Asha, c_asha, c_Ravi, NaN>>),
       Column(<<"S", "a", "l", "a", "r", "y">>, "object",
              <<c_50000, c_xl, c_60k, c_abc>>),
       Column(<<"A", "g", "e">>, "object",
              <<c_thirty, c_22, c_unknown, NaN>>),
       Column(<<"J", "o", "i", "n", " ", "D", "a", "t", "e">>, "object",
              <<c_01_02_2023, c_2023_03_04, c_12_25_2023, NaN>>),
       Column(<<"C", "i", "t", "y">>, "object",
              <<c_Pune, NaN, c_pune, c_Delhi>>),
       Column(<<"s", "c", "o", "r", "e">>, "float64",
              <<FloatCell(1, 1), FloatCell(5, 2), NaN, FloatCell(4, 1)>>),
       Column(<<"S", "c", "o", "r", "e", " ">>, "int64",
              <<IntCell(7), IntCell(7), IntCell(8), IntCell(9)>>) >>

SourceRows == 1..Len(SourceColumns[1].cells)

\* The sequences over S of length at most n
SeqsUpTo(S, n) == UNION {[1..k -> S] : k \in 0..n}

\* The increasing sequences of at most n column numbers
ColumnChoices(n) ==
    {cs \in SeqsUpTo(DOMAIN SourceColumns, n) :
        \A i \in 1..(Len(cs) - 1) : cs[i] < cs[i + 1]}

\* The table with the chosen columns and the chosen rows, in that order
MakeTable(cols, cs, rs) ==
    [i \in DOMAIN cs |->
        [cols[cs[i]] EXCEPT !.cells = [k \in DOMAIN rs |-> @[rs[k]]]]]

InputTables ==
    {MakeTable(SourceColumns, cs, rs) :
        cs \in ColumnChoices(MaxCols), rs \in SeqsUpTo(SourceRows, MaxRows)}

Init ==
    /\ pc = 1
    /\ df \in InputTables
    /\ arg = df
    /\ df_before = <<>>
    /\ report = NoReport
    /\ log = <<>>
    /\ err = "none"
    /\ threshold = DefaultThreshold
    /\ platform \in Platforms
    /\ raw = NaN
    /\ res = NaN

Next ==
    \/ Snapshot
    \/ CleanColumnNames
    \/ RemoveDuplicates
    \/ CleanTextColumns
    \/ NormalizeSalaryColumn
    \/ NormalizeAgeColumn
    \/ ParseDateColumns
    \/ HandleMissingValues
    \/ GenerateCleaningReport

Spec == Init /\ [][Next]_vars

----------------------------------------------------------------------------
(* parse_salary called on one value                                        *)

MaxNumLen == 3

\* The characters of the values parse_salary is tried on
NumeralAlphabet ==
    {"I", "V", "x", "l", "k", "1", "5", "0", ".", "$", ",", " ", "a", "-"}

NumeralInputs ==
    {StrCell(s) : s \in SeqsUpTo(NumeralAlphabet, MaxNumLen)}
    \cup {StrCell(<<"$", "1", ",", "2", "0", "0">>), c_50000, c_abc,
          StrCell(<<"m", "c", "m", "x", "c", "i", "v">>),
          StrCell(<<"1", ".", "5", "k", " ", "u", "s", "d">>),
          IntCell(50000), IntCell(-5), FloatCell(2401, 2), NaN}

InitNumeral ==
    /\ pc = 1
    /\ raw \in NumeralInputs
    /\ res = NaN
    /\ df = <<>>
    /\ arg = <<>>
    /\ df_before = <<>>
    /\ report = NoReport
    /\ log = <<>>
    /\ err = "none"
    /\ threshold = DefaultThreshold
    /\ platform = "glibc"

ParseSalaryCall ==
    /\ pc = 1
    /\ res' = parse_salary(raw)
    /\ pc' = 2
    /\ UNCHANGED <<df, df_before, report, log, err, threshold, platform, raw, arg>>

NextNumeral == ParseSalaryCall

SpecNumeral == InitNumeral /\ [][NextNumeral]_vars

----------------------------------------------------------------------------
(* parse_date_columns called on a table                                    *)

MaxDateRows == 2

s_01_02_2023 == c_01_02_2023.s
s_03_04_2023 == <<"0", "3", "/", "0", "4", "/", "2", "0", "2", "3">>
s_12_25_2023 == c_12_25_2023.s

\* The cells of the text columns parse_date_columns is tried on
DateCells ==
    {c_01_02_2023, StrCell(s_03_04_2023), c_12_25_2023, c_2023_03_04,
     StrCell(<<"2", "0", "2", "3", "-", "0", "2", "-", "3", "0">>),
     StrCell(<<" ", "2", "0", "2", "4", "-", "0", "2", "-", "2", "9">>),
     StrCell(<<"0", "1", "-", "0", "1", "-", "0", "0", "9", "9">>),
     StrCell(<<"5", "-", "M", "a", "r", "-", "2", "0", "2", "3">>),
     StrCell(<<"5", " ", "m", "a", "r", "c", "h", " ", "2", "0", "2", "3">>),
     StrCell(<<"M", "a", "y", " ", "5", ",", " ", "2", "0", "2", "3">>),
     StrCell(<<"2", "0", "2", "3", "0", "3", "0", "4">>),
     c_abc, c_pune, NaN}

DateColumns ==
    {Column(<<"J", "o", "i", "n", "e", "d">>, "object", cs) :
        cs \in SeqsUpTo(DateCells, MaxDateRows)}

\* A second column beside the text column: none, a numeric one or a text
\* column without dates
Companion(n) ==
    {<<>>,
     <<Column(<<"S", "c", "o", "r", "e">>, "float64",
              [r \in 1..n |-> IF r = 1 THEN NaN ELSE FloatCell(r, 1)])>>,
     <<Column(<<"C", "i", "t", "y">>, "object",
              [r \in 1..n |-> IF r = 1 THEN c_pune ELSE c_abc])>>}

InitDates ==
    /\ pc = 1
    /\ platform \in Platforms
    /\ \E c \in DateColumns : \E k \in Companion(Len(c.cells)) : df = <<c>> \o k
    /\ arg = df
    /\ df_before = <<>>
    /\ report = NoReport
    /\ log = <<>>
    /\ err = "none"
    /\ threshold = DefaultThreshold
    /\ raw = NaN
    /\ res = NaN

\* A direct call ended with the result r of a function that may raise
Called_With(r) ==
    /\ df' = r.df
    /\ err' = r.raise

ParseDateColumnsCall ==
    /\ pc = 1
    /\ Called_With(parse_date_columns(platform, df))
    /\ pc' = 2
    /\ UNCHANGED <<df_before, report, log, threshold, platform, raw, res, arg>>

NextDates == ParseDateColumnsCall

SpecDates == InitDates /\ [][NextDates]_vars

----------------------------------------------------------------------------
(* handle_missing_values called on a table and a threshold                 *)

MaxImputeRows == 5

\* Thresholds as fractions <<p, q>>: 0, the default 0.4, 0.5 and 1
Thresholds == {<<0, 1>>, DefaultThreshold, <<1, 2>>, <<1, 1>>}

c_a == StrCell(<<"a">>)
c_b == StrCell(<<"b">>)

\* A text column and a numeric column, by the rows a table may be made of
ImputeColumns ==
    << Column(<<"C", "i", "t", "y">>, "object", <<c_b, c_a, NaN, c_a, NaN>>),
       Column(<<"S", "c", "o", "r", "e">>, "float64",
              <<FloatCell(4, 1), FloatCell(1, 1), FloatCell(2, 1), NaN, NaN>>) >>

ImputeTables ==
    {MakeTable(ImputeColumns, cs, rs) :
        cs \in {<<1>>, <<2>>, <<1, 2>>, <<2, 1>>},
        rs \in SeqsUpTo(1..Len(ImputeColumns[1].cells), MaxImputeRows)}

InitImpute ==
    /\ pc = 1
    /\ df \in ImputeTables
    /\ threshold \in Thresholds
    /\ arg = df
    /\ df_before = <<>>
    /\ report = NoReport
    /\ log = <<>>
    /\ err = "none"
    /\ platform = "glibc"
    /\ raw = NaN
    /\ res = NaN

HandleMissingValuesCall ==
    /\ pc = 1
    /\ Called_With(handle_missing_values(df, threshold))
    /\ pc' = 2
    /\ UNCHANGED <<df_before, report, log, threshold, platform, raw, res, arg>>

NextImpute == HandleMissingValuesCall

SpecImpute == InitImpute /\ [][NextImpute]_vars

----------------------------------------------------------------------------
(* Properties of auto_clean (specification Spec)                           *)

IsPrefix(s, u) == Len(s) <= Len(u) /\ \A i \in DOMAIN s : s[i] = u[i]

Called(f) == \E i \in DOMAIN log : log[i] = f

JustCalled(f) == log # <<>> /\ log[Len(log)] = f /\ err = "none"

C1_Order ==
    <<"copy", "clean_column_names", "remove_duplicates", "clean_text_columns",
      "normalize_salary_column", "normalize_age_column", "parse_date_columns",
      "handle_missing_values", "generate_cleaning_report">>

\* C1: the calls auto_clean has made are always an initial part of the order
\* snapshot, column names, duplicates, text, salary, age, dates, missing
\* values, report, so each is made at most once and in that order; the
\* snapshot is the table as it was given; the report exists only once the
\* imputation is over; and a call that returns has made every call once and
\* reports the shapes of the snapshot and of the final table.
C1_FixedOrder ==
    /\ IsPrefix(log, C1_Order)
    /\ (log # <<>> => df_before = arg)
    /\ (report.set => Called("handle_missing_values") /\ log = C1_Order)
    /\ (Returned =>
          /\ log = C1_Order
          /\ report = [set |-> TRUE,
                       RowsBefore |-> NRows(arg), RowsAfter |-> NRows(df),
                       ColumnsBefore |-> NCols(arg), ColumnsAfter |-> NCols(df)])

C1_Witness == Returned /\ NCols(df) = 2 /\ NRows(df) = 2 /\ NRows(arg) = 3

\* C2: no exception ever leaves auto_clean, a call that has made all its
\* calls has a report, and after the salary and age steps every cell of a
\* salary or age column is a number or a missing marker.
C2_NoErrorEscapes ==
    /\ err = "none"
    /\ (pc = Len(auto_clean_body) + 1 => report.set)
    /\ \A i \in DOMAIN df :
          /\ (Called("normalize_salary_column") /\ Contains(Lower(df[i].name), s_salary))
                => \A r \in DOMAIN df[i].cells : df[i].cells[r].t \in {"int", "float", "nan"}
          /\ (Called("normalize_age_column") /\ Contains(Lower(df[i].name), s_age))
                => \A r \in DOMAIN df[i].cells : df[i].cells[r].t \in {"int", "float", "nan"}

\* The distinct rows of the table auto_clean was given
DistinctRows(T) == {Row(T, r) : r \in 1..NRows(T)}

FirstOccurrences(T) ==
    {r \in 1..NRows(T) : \A q \in 1..(r - 1) : Row(T, q) # Row(T, r)}

NthFirst(T, k) ==
    CHOOSE r \in FirstOccurrences(T) :
        Cardinality({q \in FirstOccurrences(T) : q < r}) = k - 1

\* C8: right after remove_duplicates the table holds exactly the first
\* occurrence of each distinct row of the input, in the input's order, and
\* removing duplicates again changes nothing; the report of a call that
\* returns has Rows After equal to the number of distinct input rows and at
\* most Rows Before.
C8_Dedup ==
    /\ JustCalled("remove_duplicates") =>
          /\ NRows(df) = Cardinality(FirstOccurrences(arg))
          /\ \A k \in 1..NRows(df) : Row(df, k) = Row(arg, NthFirst(arg, k))
          /\ remove_duplicates(df) = df
    /\ Returned =>
          /\ report.RowsAfter = Cardinality(DistinctRows(arg))
          /\ report.RowsAfter <= report.RowsBefore

C8_Witness ==
    /\ Returned
    /\ report.RowsBefore = 3
    /\ report.RowsAfter = 2
    /\ Row(arg, 1) = Row(arg, 3)

\* C9: once clean_column_names has run, the column names of the table are
\* pairwise distinct (the names of every input table are).
C9_NamesUnique ==
    Called("clean_column_names") =>
        \A i, j \in DOMAIN df : i # j => df[i].name # df[j].name

\* A text column of the input that holds no salary, no age and no date
TextualNonDate(i) ==
    /\ arg[i].dtype = "object"
    /\ ~Contains(Lower(clean_name(arg[i].name)), s_salary)
    /\ ~Contains(Lower(clean_name(arg[i].name)), s_age)
    /\ \A r \in DOMAIN arg[i].cells :
          IsNull(parse_date_cell(platform,
                     clean_text_cell(clean_name(arg[i].name), arg[i].cells[r])))

\* C10: a cell that is missing in a textual non-date column of the input is
\* still a missing marker when handle_missing_values starts, and in the
\* table auto_clean returns it is a missing marker or one of the column's
\* own cleaned values, filled in only when at most 0.4 of the column is
\* missing.
C10_MissingSurvives ==
    LET D == remove_duplicates(arg)
    IN  (At("handle_missing_values") \/ Returned) =>
        \A i \in DOMAIN arg : \A r \in 1..NRows(D) :
            (TextualNonDate(i) /\ IsNull(D[i].cells[r])) =>
                /\ At("handle_missing_values") => IsNull(df[i].cells[r])
                /\ Returned =>
                      IF AtOrUnder(D[i].cells, DefaultThreshold)
                      THEN \E q \in 1..NRows(D) :
                              /\ ~IsNull(D[i].cells[q])
                              /\ df[i].cells[r] =
                                    clean_text_cell(clean_name(arg[i].name), D[i].cells[q])
                      ELSE IsNull(df[i].cells[r])

----------------------------------------------------------------------------
(* Properties of parse_salary (specification SpecNumeral)                  *)

\* The value of a string of Roman symbols, read from the left: a symbol
\* smaller than its right neighbour counts negative
RECURSIVE C5_RomanValue(_, _)
C5_RomanValue(s, i) ==
    IF i > Len(s) THEN 0
    ELSE (IF i < Len(s) /\ roman_map(s[i]) < roman_map(s[i + 1])
          THEN -roman_map(s[i]) ELSE roman_map(s[i]))
         + C5_RomanValue(s, i + 1)

C5_Gives(s, v) == raw = StrCell(s) => res = v

\* C5: parse_salary returns a number or None, never an error.  With val the
\* lower-cased input without "$" and "," and trimmed: if val consists of the
\* letters i v x l c d m the result is its subtractive Roman value; else if
\* val contains "k" the result is 1000 times the number left when "k" is
\* removed, or None when that is no number; else the result is the number
\* made of val's digits and periods, or None when they make no number.
\* "IV" gives 4, "xl" 40, "$1,200" 1200, "15k" 15000 and "abc" None.
C5_ParseNumeral ==
    pc = 2 =>
        LET val == Strip(Remove(Remove(Lower(PyStr(raw)), "$"), ","))
            roman == val # <<>> /\ \A i \in DOMAIN val : val[i] \in RomanLetters
            hasK == \E i \in DOMAIN val : val[i] = "k"
            fk == PyFloat(Remove(val, "k"))
            fd == PyFloat(KeepDigitsAndDots(val))
        IN  /\ res.t \in {"int", "float", "nan"}
            /\ roman => res = IntCell(C5_RomanValue(val, 1))
            /\ (~roman /\ hasK) =>
                  res = IF fk.t = "raise" THEN NaN ELSE FloatCell(fk.n * 1000, fk.d)
            /\ (~roman /\ ~hasK) => res = IF fd.t = "raise" THEN NaN ELSE fd
            /\ C5_Gives(<<"I", "V">>, IntCell(4))
            /\ C5_Gives(<<"x", "l">>, IntCell(40))
            /\ C5_Gives(<<"$", "1", ",", "2", "0", "0">>, FloatCell(1200, 1))
            /\ C5_Gives(<<"1", "5", "k">>, FloatCell(15000, 1))
            /\ C5_Gives(<<"a", "b", "c">>, NaN)

C5_Witness == pc = 2 /\ raw = c_xl /\ res = IntCell(40)

----------------------------------------------------------------------------
(* Properties of parse_date_columns (specification SpecDates)              *)

\* A string of the exact form YYYY-MM-DD
IsIsoDate(c) ==
    /\ c.t = "str"
    /\ Len(c.s) = 10
    /\ \A i \in {1, 2, 3, 4, 6, 7, 9, 10} : IsDigit(c.s[i])
    /\ c.s[5] = "-" /\ c.s[8] = "-"

\* C4: after parse_date_columns every column either equals its input or
\* holds only missing markers and strings of the form YYYY-MM-DD; a column
\* that is not text, or in which no cell parsed as a date, equals its input.
C4_UnchangedOrIso ==
    pc = 2 =>
        /\ NCols(df) = NCols(arg)
        /\ \A i \in DOMAIN df :
              /\ \/ df[i] = arg[i]
                 \/ \A r \in DOMAIN df[i].cells :
                       IsNull(df[i].cells[r]) \/ IsIsoDate(df[i].cells[r])
              /\ arg[i].dtype # "object" => df[i] = arg[i]
              /\ (\A r \in DOMAIN arg[i].cells :
                     IsNull(parse_date_cell(platform, arg[i].cells[r])))
                    => df[i] = arg[i]

C6_Grammars ==
    << <<"%d", "-", "%m", "-", "%Y">>,
       <<"%d", "/", "%m", "/", "%Y">>,
       <<"%Y", "-", "%m", "-", "%d">>,
       <<"%m", "/", "%d", "/", "%Y">>,
       <<"%Y", "/", "%m", "/", "%d">>,
       <<"%d", "-", "%b", "-", "%Y">>,
       <<"%d", " ", "%B", " ", "%Y">>,
       <<"%B", " ", "%d", ",", " ", "%Y">>,
       <<"%b", " ", "%d", ",", " ", "%Y">> >>

C6_Becomes(i, r, s, iso) ==
    arg[i].cells[r] = StrCell(s) => df[i].cells[r] = StrCell(iso)

\* C6: every text cell that some grammar of the list DD-MM-YYYY, DD/MM/YYYY,
\* YYYY-MM-DD, MM/DD/YYYY, YYYY/MM/DD, DD-Mon-YYYY, DD Month YYYY,
\* Month DD, YYYY, Mon DD, YYYY parses is rewritten to the date that the
\* first such grammar reads in the trimmed cell.  "01-02-2023" becomes
\* 2023-02-01, "03/04/2023" becomes 2023-04-03, "12/25/2023" 2023-12-25.
C6_FirstGrammarWins ==
    pc = 2 =>
        \A i \in DOMAIN arg : arg[i].dtype = "object" =>
            \A r \in DOMAIN arg[i].cells :
                LET s == Strip(PyStr(arg[i].cells[r]))
                    hits == {k \in DOMAIN C6_Grammars :
                                strptime(s, C6_Grammars[k]).t = "date"}
                    first == CHOOSE k \in hits : \A j \in hits : k <= j
                IN  /\ hits # {} =>
                          df[i].cells[r] =
                              StrCell(strftime(platform, strptime(s, C6_Grammars[first])))
                    /\ C6_Becomes(i, r, s_01_02_2023,
                                  <<"2", "0", "2", "3", "-", "0", "2", "-", "0", "1">>)
                    /\ C6_Becomes(i, r, s_03_04_2023,
                                  <<"2", "0", "2", "3", "-", "0", "4", "-", "0", "3">>)
                    /\ C6_Becomes(i, r, s_12_25_2023,
                                  <<"2", "0", "2", "3", "-", "1", "2", "-", "2", "5">>)

C6_Witness ==
    /\ pc = 2
    /\ Len(arg[1].cells) = 2
    /\ arg[1].cells[1] = StrCell(s_03_04_2023)
    /\ df[1].cells[1] = StrCell(<<"2", "0", "2", "3", "-", "0", "4", "-", "0", "3">>)
    /\ arg[1].cells[2] = StrCell(s_12_25_2023)
    /\ df[1].cells[2] = StrCell(<<"2", "0", "2", "3", "-", "1", "2", "-", "2", "5">>)

----------------------------------------------------------------------------
(* Properties of handle_missing_values (specification SpecImpute)          *)

Missing(cells) == Cardinality({r \in DOMAIN cells : IsNull(cells[r])})

\* The column's missing fraction is above / exactly at the threshold p/q
FractionAbove(cells, thr) ==
    Len(cells) > 0 /\ Missing(cells) * thr[2] > thr[1] * Len(cells)

FractionEquals(cells, thr) ==
    Len(cells) > 0 /\ Missing(cells) * thr[2] = thr[1] * Len(cells)

\* What handle_missing_values never touches: the shape, the names and
\* dtypes, every non-missing cell, every column above the threshold
C3_Untouched ==
    /\ NCols(df) = NCols(arg)
    /\ NRows(df) = NRows(arg)
    /\ \A i \in DOMAIN df :
          /\ df[i].name = arg[i].name
          /\ df[i].dtype = arg[i].dtype
          /\ Len(df[i].cells) = Len(arg[i].cells)
          /\ \A r \in DOMAIN arg[i].cells :
                ~IsNull(arg[i].cells[r]) => df[i].cells[r] = arg[i].cells[r]
          /\ FractionAbove(arg[i].cells, threshold) => df[i] = arg[i]

\* C3 as stated: handle_missing_values keeps the row and column counts and
\* every non-missing cell, leaves every column above the threshold
\* unchanged, and leaves no missing cell in a column whose missing fraction
\* equals the threshold.
C3_Frame_AsStated ==
    pc = 2 =>
        /\ C3_Untouched
        /\ \A i \in DOMAIN df :
              FractionEquals(arg[i].cells, threshold) => Missing(df[i].cells) = 0

\* C3, amended: as above, but a column whose missing fraction equals the
\* threshold is left without missing cells when it has a non-missing cell
\* to impute from.
C3_Frame ==
    pc = 2 =>
        /\ C3_Untouched
        /\ \A i \in DOMAIN df :
              (FractionEquals(arg[i].cells, threshold)
                  /\ Missing(arg[i].cells) < Len(arg[i].cells))
                 => Missing(df[i].cells) = 0

C3_Witness ==
    /\ pc = 2
    /\ threshold = DefaultThreshold
    /\ NCols(df) = 2
    /\ NRows(df) = 5
    /\ Missing(arg[1].cells) = 2 /\ Missing(df[1].cells) = 0
    /\ Missing(arg[2].cells) = 3 /\ df[2] = arg[2]

\* The non-missing values of a column that occur most often
C7_MostFrequent(cells) ==
    LET vals == {cells[r] : r \in {q \in DOMAIN cells : ~IsNull(cells[q])}}
        Freq(v) == Cardinality({r \in DOMAIN cells : cells[r] = v})
    IN  {v \in vals : \A w \in vals : Freq(w) <= Freq(v)}

\* Of a set of values, the one that occurs first in the column
C7_FirstIn(cells, S) ==
    cells[CHOOSE r \in DOMAIN cells :
             cells[r] \in S /\ \A q \in 1..(r - 1) : cells[q] \notin S]

\* Of a set of strings, the smallest in string order
C7_SmallestOf(S) == CHOOSE v \in S : \A w \in S : ~StrLess(w.s, v.s)

\* The k-th smallest of the non-missing numbers of a column, by rank
C7_Kth(cells, k) ==
    LET idx == {r \in DOMAIN cells : ~IsNull(cells[r])}
    IN  cells[CHOOSE r \in idx :
                 /\ Cardinality({q \in idx : NumLess(cells[q], cells[r])}) < k
                 /\ k <= Cardinality({q \in idx : ~NumLess(cells[r], cells[q])})]

\* The median of the non-missing numbers of a column
C7_Median(cells) ==
    LET n == Len(cells) - Missing(cells)
        lo == C7_Kth(cells, (n + 1) \div 2)
        hi == C7_Kth(cells, (n \div 2) + 1)
    IN  FloatCell(lo.n * hi.d + hi.n * lo.d, 2 * lo.d * hi.d)

\* Cell r of column i was missing and has been filled
C7_Filled(i, r) == IsNull(arg[i].cells[r]) /\ ~IsNull(df[i].cells[r])

\* Every column in which a cell was filled had a missing fraction at or
\* under the threshold and has no missing cell left; a filled cell of a
\* text column holds TextValue of the column, one of a numeric column the
\* median of its non-missing values.
C7_FillsWith(TextValue(_)) ==
    \A i \in DOMAIN df : \A r \in DOMAIN arg[i].cells :
        C7_Filled(i, r) =>
            /\ ~FractionAbove(arg[i].cells, threshold)
            /\ Missing(df[i].cells) = 0
            /\ df[i].cells[r] =
                  IF arg[i].dtype = "object" THEN TextValue(arg[i].cells)
                  ELSE C7_Median(arg[i].cells)

\* C7 as stated: a filled text column receives its most frequent
\* non-missing value, the one occurring first in row order among several
\* equally frequent ones; a filled numeric column receives its median.
C7_FillValue_AsStated ==
    LET FirstMode(cells) == C7_FirstIn(cells, C7_MostFrequent(cells))
    IN  pc = 2 => C7_FillsWith(FirstMode)

\* C7, amended: among several equally frequent values the smallest in
\* string order is used.
C7_FillValue ==
    LET SmallestMode(cells) == C7_SmallestOf(C7_MostFrequent(cells))
    IN  pc = 2 => C7_FillsWith(SmallestMode)

C7_Witness ==
    /\ pc = 2
    /\ NCols(df) = 2
    /\ arg[1].cells = <<c_b, c_a, NaN>>
    /\ df[1].cells = <<c_b, c_a, c_a>>
    /\ arg[2].cells = <<FloatCell(4, 1), FloatCell(1, 1), NaN>>
    /\ df[2].cells = <<FloatCell(4, 1), FloatCell(1, 1), FloatCell(5, 2)>>

=============================================================================
